---- MODULE Spec2Model ----
(***************************************************************************)
(* Model of examples/with_sctk/src/main.rs: a Wayland window bound to the  *)
(* vello renderer.  run() performs a one-time bootstrap and setup, then    *)
(* loops on EventQueue::blocking_dispatch, which delivers protocol events  *)
(* to the handler traits implemented by AppState.  The configure handler   *)
(* builds a scene, acquires the surface texture, renders and presents.     *)
(***************************************************************************)
EXTENDS Integers, Sequences, FiniteSets, TLC

\* ---------------------------------------------------------------- bounds
\* total number of events the display server delivers in one run
MaxEvents == 3
\* largest number of events one blocking_dispatch call delivers
MaxBatch == 2
\* cap on how often one setup step may be attempted
MaxAttempts == 2

\* ------------------------------------------------------ program constants
InitWidth == 256
InitHeight == 256
MinWidth == 256
MinHeight == 256
RectX == 0
RectY == 0
RectWidth == 1000
RectHeight == 1000
ColorR == 128
ColorG == 128
ColorB == 128

\* sizes a WindowConfigure event may report
Sizes == {<<256, 256>>, <<512, 384>>, <<1024, 768>>}

\* the handler roles AppState implements with an empty body
StubEvents ==
  {"scale_factor_changed", "frame", "new_output", "update_output",
   "output_destroyed", "new_seat", "new_capability", "remove_capability",
   "remove_seat"}

\* every event blocking_dispatch can deliver to AppState
Events == StubEvents \cup {"configure", "request_close"}

\* positions of run() before the loop, in program order
SetupPcs ==
  {"connect", "registry_queue_init", "bind_compositor", "bind_xdg_shell",
   "bind_xdg_window", "create_surface", "window_builder", "window_handle",
   "render_context", "create_render_surface", "renderer_new", "app_state"}

\* the bootstrap part of run(): connection, registry and required globals
BootstrapPcs ==
  {"connect", "registry_queue_init", "bind_compositor", "bind_xdg_shell"}

\* positions inside WindowHandler::configure
CfgPcs == {"cfg_scene", "cfg_texture", "cfg_render", "cfg_present", "cfg_return"}

\* positions inside the loop of run()
LoopPcs == {"loop", "dispatch", "handler"} \cup CfgPcs

VARIABLES
  pc,              \* position of the single thread
  env,             \* what the display server offers: display, compositor, shell
  attempts,        \* how often each setup step has been executed
  failure,         \* the call whose Result was an Err, or "none"
  wl_surface,      \* compositor_state.create_surface was called
  window,          \* the toplevel window, << >> before it is mapped
  handle,          \* WindowHandle { conn, window } exists
  render_cx,       \* RenderContext exists
  surface,         \* RenderSurface: its config width and height
  surfacesCreated, \* calls of render_cx.create_surface
  renderer,        \* Renderer exists
  loopEntered,     \* run() reached its loop
  pending,         \* events left in the batch blocking_dispatch is delivering
  event,           \* the event being delivered, or "none"
  configure,       \* the size reported by the configure event being handled
  lastConfigure,   \* the size reported by the last configure event
  delivered,       \* events delivered so far
  running,         \* handler invocations that have started and not returned
  closed,          \* request_close was invoked
  stubsHandled,    \* empty handlers that have returned
  scene,           \* the scene of the current frame: a sequence of fills
  dims,            \* locals width, height of configure
  surface_texture, \* the texture of the current frame
  ops,             \* what the current configure has done so far, in order
  renderArgs,      \* width, height of the last render_to_surface_async call
  scenesBuilt, acquired, rendered, presented, configuresDone

setupVars ==
  <<env, attempts, wl_surface, window, handle, render_cx, surface,
    surfacesCreated, renderer>>
loopVars ==
  <<loopEntered, pending, event, configure, lastConfigure, delivered,
    running, closed, stubsHandled>>
frameVars ==
  <<scene, dims, surface_texture, ops, renderArgs, scenesBuilt, acquired,
    rendered, presented, configuresDone>>
vars == <<pc, failure, setupVars, loopVars, frameVars>>

NoSurface == [exists |-> FALSE, width |-> 0, height |-> 0]

Init ==
  /\ pc = "connect"
  /\ env \in [display : BOOLEAN, compositor : BOOLEAN, shell : BOOLEAN]
  /\ attempts = [s \in SetupPcs |-> 0]
  /\ failure = "none"
  /\ wl_surface = FALSE
  /\ window = << >>
  /\ handle = FALSE
  /\ render_cx = FALSE
  /\ surface = NoSurface
  /\ surfacesCreated = 0
  /\ renderer = FALSE
  /\ loopEntered = FALSE
  /\ pending = 0
  /\ event = "none"
  /\ configure = << >>
  /\ lastConfigure = << >>
  /\ delivered = 0
  /\ running = 0
  /\ closed = FALSE
  /\ stubsHandled = 0
  /\ scene = << >>
  /\ dims = << >>
  /\ surface_texture = "none"
  /\ ops = << >>
  /\ renderArgs = << >>
  /\ scenesBuilt = 0
  /\ acquired = 0
  /\ rendered = 0
  /\ presented = 0
  /\ configuresDone = 0

\* ------------------------------------------------------------ run(): setup

SetupRetry(ok, next) == IF ok THEN next ELSE pc
\* .unwrap() / .expect() on a setup Result: continue, or panic
SetupUnwrap(ok, next) == IF ok THEN next ELSE "aborted"

\* one setup statement whose Result is unwrapped
SetupStep(at, ok, next, what) ==
  /\ pc = at
  /\ attempts[at] < MaxAttempts
  /\ attempts' = [attempts EXCEPT ![at] = @ + 1]
  /\ failure' = IF ok THEN failure ELSE what
  /\ pc' = SetupUnwrap(ok, next)

\* one setup statement that yields no Result
SetupPlain(at, next) ==
  /\ pc = at
  /\ attempts[at] < MaxAttempts
  /\ attempts' = [attempts EXCEPT ![at] = @ + 1]
  /\ failure' = failure
  /\ pc' = next

Connect ==
  /\ SetupStep("connect", env.display, "registry_queue_init", "connect_to_env")
  /\ UNCHANGED <<env, wl_surface, window, handle, render_cx, surface,
                 surfacesCreated, renderer, loopVars, frameVars>>

RegistryQueueInit ==
  /\ \E ok \in BOOLEAN :
       SetupStep("registry_queue_init", ok, "bind_compositor", "registry_queue_init")
  /\ UNCHANGED <<env, wl_surface, window, handle, render_cx, surface,
                 surfacesCreated, renderer, loopVars, frameVars>>

BindCompositor ==
  /\ SetupStep("bind_compositor", env.compositor, "bind_xdg_shell", "wl_compositor")
  /\ UNCHANGED <<env, wl_surface, window, handle, render_cx, surface,
                 surfacesCreated, renderer, loopVars, frameVars>>

BindXdgShell ==
  /\ SetupStep("bind_xdg_shell", env.shell, "bind_xdg_window", "xdg_shell")
  /\ UNCHANGED <<env, wl_surface, window, handle, render_cx, surface,
                 surfacesCreated, renderer, loopVars, frameVars>>

BindXdgWindow ==
  /\ SetupPlain("bind_xdg_window", "create_surface")
  /\ UNCHANGED <<env, wl_surface, window, handle, render_cx, surface,
                 surfacesCreated, renderer, loopVars, frameVars>>

CreateSurface ==
  /\ SetupPlain("create_surface", "window_builder")
  /\ wl_surface' = TRUE
  /\ UNCHANGED <<env, window, handle, render_cx, surface,
                 surfacesCreated, renderer, loopVars, frameVars>>

WindowBuilder ==
  /\ \E ok \in BOOLEAN :
       /\ SetupStep("window_builder", ok, "window_handle", "window_creation")
       /\ window' = IF ok THEN <<MinWidth, MinHeight>> ELSE window
  /\ UNCHANGED <<env, wl_surface, handle, render_cx, surface,
                 surfacesCreated, renderer, loopVars, frameVars>>

MakeWindowHandle ==
  /\ SetupPlain("window_handle", "render_context")
  /\ handle' = TRUE
  /\ UNCHANGED <<env, wl_surface, window, render_cx, surface,
                 surfacesCreated, renderer, loopVars, frameVars>>

NewRenderContext ==
  /\ \E ok \in BOOLEAN :
       /\ SetupStep("render_context", ok, "create_render_surface", "render_context")
       /\ render_cx' = ok
  /\ UNCHANGED <<env, wl_surface, window, handle, surface,
                 surfacesCreated, renderer, loopVars, frameVars>>

CreateRenderSurface ==
  /\ SetupPlain("create_render_surface", "renderer_new")
  /\ surface' = [exists |-> TRUE, width |-> InitWidth, height |-> InitHeight]
  /\ surfacesCreated' = surfacesCreated + 1
  /\ UNCHANGED <<env, wl_surface, window, handle, render_cx,
                 renderer, loopVars, frameVars>>

NewRenderer ==
  /\ \E ok \in BOOLEAN :
       /\ SetupStep("renderer_new", ok, "app_state", "renderer_new")
       /\ renderer' = ok
  /\ UNCHANGED <<env, wl_surface, window, handle, render_cx, surface,
                 surfacesCreated, loopVars, frameVars>>

BuildAppState ==
  /\ SetupPlain("app_state", "loop")
  /\ loopEntered' = TRUE
  /\ UNCHANGED <<env, wl_surface, window, handle, render_cx, surface,
                 surfacesCreated, renderer, pending, event, configure,
                 lastConfigure, delivered, running, closed, stubsHandled,
                 frameVars>>

\* ------------------------------------------------------- run(): the loop

LoopBreak(ok) == IF ok THEN "loop" ELSE "returned"
\* loop { event_queue.blocking_dispatch(&mut state).unwrap(); }
LoopNext(ok) == IF ok THEN "loop" ELSE "aborted"

\* blocking_dispatch is called: it wakes with a batch of events to deliver,
\* or with an error
BlockingDispatch ==
  /\ pc = "loop"
  /\ \/ /\ delivered < MaxEvents
        /\ \E n \in 1..MaxBatch :
             /\ delivered + n <= MaxEvents
             /\ pending' = n
        /\ pc' = "dispatch"
        /\ failure' = failure
     \/ /\ pending' = pending
        /\ failure' = "blocking_dispatch"
        /\ pc' = LoopNext(FALSE)
  /\ UNCHANGED <<setupVars, loopEntered, event, configure, lastConfigure,
                 delivered, running, closed, stubsHandled, frameVars>>

\* blocking_dispatch has delivered its batch and returns Ok
DispatchReturn ==
  /\ pc = "dispatch"
  /\ pending = 0
  /\ pc' = LoopNext(TRUE)
  /\ UNCHANGED <<failure, setupVars, loopVars, frameVars>>

CanDeliverReentrant == pc \in LoopPcs \ {"loop"} /\ pending > 0
\* the next event of the batch is delivered only when no handler is running
CanDeliver == pc = "dispatch" /\ pending > 0

\* blocking_dispatch invokes the handler of the next event of the batch
Deliver ==
  /\ CanDeliver
  /\ \E e \in Events :
       /\ event' = e
       /\ \/ /\ e = "configure"
             /\ \E s \in Sizes : configure' = s
          \/ /\ e # "configure"
             /\ configure' = << >>
  /\ pending' = pending - 1
  /\ delivered' = delivered + 1
  /\ running' = running + 1
  /\ pc' = "handler"
  /\ UNCHANGED <<failure, setupVars, loopEntered, lastConfigure, closed,
                 stubsHandled, frameVars>>

\* ------------------------------------------- compositor, output, seat stubs

RenderingHandler(name) ==
  /\ pc = "handler"
  /\ event = name
  /\ pc' = "cfg_scene"
  /\ dims' = <<surface.width, surface.height>>
  /\ UNCHANGED <<failure, setupVars, loopVars, scene, surface_texture, ops,
                 renderArgs, scenesBuilt, acquired, rendered, presented,
                 configuresDone>>
\* a handler with an empty body: it returns to blocking_dispatch
EmptyHandler(name) ==
  /\ pc = "handler"
  /\ event = name
  /\ pc' = "dispatch"
  /\ event' = "none"
  /\ running' = running - 1
  /\ stubsHandled' = stubsHandled + 1
  /\ UNCHANGED <<failure, setupVars, loopEntered, pending, configure,
                 lastConfigure, delivered, closed, frameVars>>

scale_factor_changed == EmptyHandler("scale_factor_changed")
frame == EmptyHandler("frame")
new_output == EmptyHandler("new_output")
update_output == EmptyHandler("update_output")
output_destroyed == EmptyHandler("output_destroyed")
new_seat == EmptyHandler("new_seat")
new_capability == EmptyHandler("new_capability")
remove_capability == EmptyHandler("remove_capability")
remove_seat == EmptyHandler("remove_seat")

\* ------------------------------------------------------------ WindowHandler

CloseReturns == "dispatch"
\* the body of request_close is todo!(): it panics
CloseOutcome == "aborted"

request_close ==
  /\ pc = "handler"
  /\ event = "request_close"
  /\ closed' = TRUE
  /\ pc' = CloseOutcome
  /\ UNCHANGED <<failure, setupVars, loopEntered, pending, event, configure,
                 lastConfigure, delivered, running, stubsHandled, frameVars>>

ConfigureNextSwapped(step) ==
  CASE step = "cfg_dims" -> "cfg_scene"
    [] step = "cfg_scene" -> "cfg_texture"
    [] step = "cfg_texture" -> "cfg_present"
    [] step = "cfg_present" -> "cfg_render"
    [] step = "cfg_render" -> "cfg_return"
\* the statements of configure in program order
ConfigureNext(step) ==
  CASE step = "cfg_dims" -> "cfg_scene"
    [] step = "cfg_scene" -> "cfg_texture"
    [] step = "cfg_texture" -> "cfg_render"
    [] step = "cfg_render" -> "cfg_present"
    [] step = "cfg_present" -> "cfg_return"

FrameIgnoreErr(ok, next) == next
\* .expect() on a per-frame Result: continue, or panic
FrameExpect(ok, next) == IF ok THEN next ELSE "aborted"

RenderDimsFromConfigure == configure
\* let width = self.surface.config.width; let height = ...height;
RenderDims == <<surface.width, surface.height>>

\* configure is entered and reads the dimensions it renders with
ConfigureDims ==
  /\ pc = "handler"
  /\ event = "configure"
  /\ lastConfigure' = configure
  /\ dims' = RenderDims
  /\ ops' = << >>
  /\ surface_texture' = "none"
  /\ pc' = ConfigureNext("cfg_dims")
  /\ UNCHANGED <<failure, setupVars, loopEntered, pending, event, configure,
                 delivered, running, closed, stubsHandled, scene, renderArgs,
                 scenesBuilt, acquired, rendered, presented, configuresDone>>

KeptScene == scene
\* Scene::new()
NewScene == << >>

SceneRectSized ==
  [x |-> RectX, y |-> RectY, w |-> dims[1], h |-> dims[2]]
\* Rect::from_origin_size(Point::new(0.0, 0.0), (1000.0, 1000.0))
SceneRect ==
  [x |-> RectX, y |-> RectY, w |-> RectWidth, h |-> RectHeight]

\* Brush::Solid(Color::rgb8(128, 128, 128))
SceneBrush == [r |-> ColorR, g |-> ColorG, b |-> ColorB]

\* builder.fill(style, transform, brush, None, shape) appends one fill
Fill(sc, style, transform, brush, shape) ==
  Append(sc, [style |-> style, transform |-> transform,
              brush |-> brush, shape |-> shape])

ConfigureScene ==
  /\ pc = "cfg_scene"
  /\ scene' = Fill(NewScene, "NonZero", "IDENTITY", SceneBrush, SceneRect)
  /\ scenesBuilt' = scenesBuilt + 1
  /\ ops' = Append(ops, "scene")
  /\ pc' = ConfigureNext("cfg_scene")
  /\ UNCHANGED <<failure, setupVars, loopVars, dims, surface_texture,
                 renderArgs, acquired, rendered, presented, configuresDone>>

\* self.surface.surface.get_current_texture().expect(..)
ConfigureTexture ==
  /\ pc = "cfg_texture"
  /\ \E ok \in BOOLEAN :
       /\ failure' = IF ok THEN failure ELSE "get_current_texture"
       /\ surface_texture' = IF ok THEN "acquired" ELSE surface_texture
       /\ acquired' = IF ok THEN acquired + 1 ELSE acquired
       /\ ops' = IF ok THEN Append(ops, "acquire") ELSE ops
       /\ pc' = FrameExpect(ok, ConfigureNext("cfg_texture"))
  /\ UNCHANGED <<setupVars, loopVars, scene, dims, renderArgs, scenesBuilt,
                 rendered, presented, configuresDone>>

\* block_on_wgpu(.., render_to_surface_async(.., width, height)).expect(..)
ConfigureRender ==
  /\ pc = "cfg_render"
  /\ renderArgs' = dims
  /\ \E ok \in BOOLEAN :
       /\ failure' = IF ok THEN failure ELSE "render_to_surface"
       /\ surface_texture' = IF ok THEN "rendered" ELSE surface_texture
       /\ rendered' = IF ok THEN rendered + 1 ELSE rendered
       /\ ops' = IF ok THEN Append(ops, "render") ELSE ops
       /\ pc' = FrameExpect(ok, ConfigureNext("cfg_render"))
  /\ UNCHANGED <<setupVars, loopVars, scene, dims, scenesBuilt, acquired,
                 presented, configuresDone>>

\* surface_texture.present()
ConfigurePresent ==
  /\ pc = "cfg_present"
  /\ surface_texture' = "presented"
  /\ presented' = presented + 1
  /\ ops' = Append(ops, "present")
  /\ pc' = ConfigureNext("cfg_present")
  /\ UNCHANGED <<failure, setupVars, loopVars, scene, dims, renderArgs,
                 scenesBuilt, acquired, rendered, configuresDone>>

\* configure returns to blocking_dispatch
ConfigureReturn ==
  /\ pc = "cfg_return"
  /\ pc' = "dispatch"
  /\ event' = "none"
  /\ configure' = << >>
  /\ running' = running - 1
  /\ configuresDone' = configuresDone + 1
  /\ UNCHANGED <<failure, setupVars, loopEntered, pending, lastConfigure,
                 delivered, closed, stubsHandled, scene, dims,
                 surface_texture, ops, renderArgs, scenesBuilt, acquired,
                 rendered, presented>>

\* ---------------------------------------------------------- specification

Next ==
  \/ Connect
  \/ RegistryQueueInit
  \/ BindCompositor
  \/ BindXdgShell
  \/ BindXdgWindow
  \/ CreateSurface
  \/ WindowBuilder
  \/ MakeWindowHandle
  \/ NewRenderContext
  \/ CreateRenderSurface
  \/ NewRenderer
  \/ BuildAppState
  \/ BlockingDispatch
  \/ Deliver
  \/ DispatchReturn
  \/ scale_factor_changed
  \/ frame
  \/ new_output
  \/ update_output
  \/ output_destroyed
  \/ new_seat
  \/ new_capability
  \/ remove_capability
  \/ remove_seat
  \/ request_close
  \/ ConfigureDims
  \/ ConfigureScene
  \/ ConfigureTexture
  \/ ConfigureRender
  \/ ConfigurePresent
  \/ ConfigureReturn

Spec == Init /\ [][Next]_vars

\* ------------------------------------------------------------- properties

\* the control state of the thread: no handler running (Idle), an event
\* being handed to its handler or an empty or unimplemented handler running
\* (Dispatching), the configure handler running (Rendering)
Ctrl(p) ==
  CASE p \in SetupPcs -> "Setup"
    [] p \in {"loop", "dispatch"} -> "Idle"
    [] p = "handler" -> "Dispatching"
    [] p \in CfgPcs -> "Rendering"
    [] p = "aborted" -> "Aborted"
    [] OTHER -> "Returned"

\* the order of one frame
FrameOrder == <<"scene", "acquire", "render", "present">>

IsPrefix(a, b) == Len(a) <= Len(b) /\ SubSeq(b, 1, Len(a)) = a

\* C1: once a configure event reporting size S has been received, the
\* swap-surface's configured width and height equal S, and the dimensions
\* passed to the render call equal the size of the last configure event.
C1_SurfaceMatchesConfigure ==
  /\ pc \in CfgPcs => <<surface.width, surface.height>> = configure
  /\ renderArgs # << >> => renderArgs = lastConfigure

\* C2: delivering request_close leads to the aborted state, never back to
\* the dispatch loop: once request_close was invoked the process is aborted.
C2_CloseAborts ==
  /\ [](closed => pc = "aborted")
  /\ [][(pc = "handler" /\ event = "request_close") => pc' = "aborted"]_vars

C2_Witness == closed /\ pc = "aborted" /\ event = "request_close"

\* C3: run() never completes: there is no state in which it has returned,
\* and once the loop is entered the thread is in the loop or aborted.
C3_LoopNeverReturns ==
  /\ pc # "returned"
  /\ loopEntered => pc \in LoopPcs \cup {"aborted"}

C3_Witness ==
  loopEntered /\ pc = "aborted" /\ failure = "blocking_dispatch" /\ delivered > 0

\* C4: every scene the configure handler builds holds exactly one fill, of
\* the rectangle at (0,0) of 1000 x 1000 with the solid color rgb 128,128,128,
\* whatever size was reported and however many configures were handled.
C4_SceneContent ==
  scenesBuilt > 0 =>
    /\ Len(scene) = 1
    /\ scene[1].shape = [x |-> 0, y |-> 0, w |-> 1000, h |-> 1000]
    /\ scene[1].brush = [r |-> 128, g |-> 128, b |-> 128]

C4_Witness ==
  /\ scenesBuilt >= 2
  /\ pc = "cfg_texture"
  /\ configure = <<512, 384>>
  /\ Len(scene) = 1

\* C5: when the display is unreachable or the compositor or shell global is
\* absent the process aborts at that step, before any surface, window or
\* swap-surface exists and before the loop is entered; no setup step is
\* attempted more than once.
C5_BootstrapFatal ==
  /\ \A s \in SetupPcs : attempts[s] <= 1
  /\ (~env.display \/ ~env.compositor \/ ~env.shell) =>
       /\ pc \in BootstrapPcs \cup {"aborted"}
       /\ ~wl_surface /\ window = << >> /\ ~surface.exists
       /\ surfacesCreated = 0 /\ ~loopEntered
  /\ (~env.display /\ attempts["connect"] > 0) => pc = "aborted"
  /\ (~env.compositor /\ attempts["bind_compositor"] > 0) => pc = "aborted"
  /\ (~env.shell /\ attempts["bind_xdg_shell"] > 0) => pc = "aborted"

C5_Witness ==
  /\ env.display /\ env.compositor /\ ~env.shell
  /\ attempts["bind_xdg_shell"] = 1
  /\ pc = "aborted"

\* C6: after any failed call the process is aborted and stays so: no event
\* is delivered and no frame presented afterwards, and a frame is presented
\* only when nothing has failed and its texture has been rendered.
C6_FailureFatal ==
  /\ [](failure # "none" => pc = "aborted")
  /\ [][/\ failure # "none" =>
             /\ delivered' = delivered
             /\ presented' = presented
             /\ pc' = "aborted"
        /\ presented' # presented =>
             /\ failure = "none"
             /\ surface_texture = "rendered"]_vars

C6_Witness ==
  /\ failure = "render_to_surface"
  /\ pc = "aborted"
  /\ presented = 1
  /\ pending > 0

\* C7: a configure handled without failure does one frame in the order
\* scene, acquire, render, present; present never precedes the successful
\* render of its frame; presented frames equal successfully handled
\* configure events.
C7_FrameOrder ==
  /\ IsPrefix(ops, FrameOrder)
  /\ presented <= rendered /\ rendered <= acquired /\ acquired <= scenesBuilt
  /\ pc = "cfg_return" => ops = FrameOrder
  /\ pc \notin CfgPcs => presented = configuresDone
  /\ pc \in CfgPcs \ {"cfg_return"} => presented = configuresDone
  /\ pc = "cfg_return" => presented = configuresDone + 1

C7_Witness ==
  /\ configuresDone = 2
  /\ presented = 2
  /\ ops = FrameOrder
  /\ pc = "loop"

\* C8: at most one handler runs at a time, no event is delivered while a
\* handler runs, and the control state moves only Idle -> Dispatching ->
\* Rendering -> Idle, Dispatching -> Idle, or to the aborted state.
C8_NoOverlap ==
  /\ [](running <= 1)
  /\ [](pc \in {"loop", "dispatch"} => running = 0)
  /\ [][(pc \in CfgPcs \cup {"handler"}) => (delivered' = delivered)]_vars
  /\ [][\/ Ctrl(pc') = Ctrl(pc)
        \/ Ctrl(pc') = "Aborted"
        \/ Ctrl(pc) = "Setup" /\ Ctrl(pc') = "Idle"
        \/ Ctrl(pc) = "Idle" /\ Ctrl(pc') = "Dispatching"
        \/ Ctrl(pc) = "Dispatching" /\ Ctrl(pc') \in {"Rendering", "Idle"}
        \/ Ctrl(pc) = "Rendering" /\ Ctrl(pc') = "Idle"]_vars

C8_Witness == pc = "cfg_render" /\ pending > 0 /\ running = 1

\* C9: the empty compositor, output and seat handlers leave the
\* swap-surface, the renderer and the window handle unchanged, acquire,
\* render and present nothing and never abort; a frame is acquired, rendered
\* or presented only while a configure event is being handled.
C9_StubsDoNothing ==
  /\ [][(pc = "handler" /\ event \in StubEvents) =>
          /\ UNCHANGED <<surface, renderer, handle, window, scene>>
          /\ UNCHANGED <<acquired, rendered, presented, failure>>
          /\ pc' = "dispatch"]_vars
  /\ [][(acquired' # acquired \/ rendered' # rendered \/ presented' # presented)
          => event = "configure"]_vars

C9_Witness ==
  /\ stubsHandled >= 2
  /\ delivered = stubsHandled
  /\ pc = "loop"
  /\ presented = 0

\* C10: one swap-surface is created, once, in setup after the drawing
\* surface and the window and before any event is delivered; it is always
\* 256 x 256 and every render call is made with 256 x 256.
C10_FixedSurface ==
  /\ surfacesCreated <= 1
  /\ surface.exists =>
       /\ surface.width = 256 /\ surface.height = 256
       /\ surfacesCreated = 1
       /\ wl_surface /\ window # << >>
  /\ (loopEntered \/ delivered > 0) => surface.exists
  /\ renderArgs \in {<< >>, <<256, 256>>}

C10_Witness ==
  /\ pc = "cfg_present"
  /\ configure = <<1024, 768>>
  /\ renderArgs = <<256, 256>>
  /\ surface = [exists |-> TRUE, width |-> 256, height |-> 256]

====
